---------------------------- MODULE Spec2Model ----------------------------
(***************************************************************************)
(* Model of the two automation scripts of create-cover-images:             *)
(*   .github/scripts/generate_cover_images.py  (variant "covers")          *)
(*   .github/scripts/update_frontmatter.py     (variant "frontmatter")     *)
(*                                                                         *)
(* Text is modelled as sequences.  A Python str that the code inspects     *)
(* character by character (file names, titles, slugs) is a sequence of     *)
(* one-character strings.  A markdown document is a sequence of tokens,    *)
(* each a record [k, v]: k = "nl" (a newline), "fence" (the three dashes   *)
(* the regular expression looks for), "txt" (any other body text) or a     *)
(* YAML key, in which case the token stands for the line(s)                *)
(* "key: value\n" and v is the parsed, typed value.                        *)
(***************************************************************************)
EXTENDS Naturals, Sequences, FiniteSets, TLC

(***************************************************************************)
(* Python str methods over sequences of one-character strings.             *)
(***************************************************************************)
LowerChars == <<"a", "c", "e", "l", "m", "n", "o", "p", "r", "s", "t", "y">>
UpperChars == <<"A", "C", "E", "L", "M", "N", "O", "P", "R", "S", "T", "Y">>
DigitChars == {"1", "2"}

IsLowerChar(c) == \E i \in DOMAIN LowerChars : LowerChars[i] = c
IsUpperChar(c) == \E i \in DOMAIN UpperChars : UpperChars[i] = c
IsCasedChar(c) == IsLowerChar(c) \/ IsUpperChar(c)
IsAlnumChar(c) == IsCasedChar(c) \/ c \in DigitChars

ToUpperChar(c) ==
    IF IsLowerChar(c)
    THEN UpperChars[CHOOSE i \in DOMAIN LowerChars : LowerChars[i] = c]
    ELSE c
ToLowerChar(c) ==
    IF IsUpperChar(c)
    THEN LowerChars[CHOOSE i \in DOMAIN UpperChars : UpperChars[i] = c]
    ELSE c

\* str.isupper(): at least one cased character and no lower-case one.
str_isupper(w) ==
    /\ \E i \in DOMAIN w : IsUpperChar(w[i])
    /\ \A i \in DOMAIN w : ~IsLowerChar(w[i])

\* str.title(): a cased character is upper-cased when it does not follow a
\* cased character and lower-cased when it does.
str_title(w) ==
    [i \in DOMAIN w |->
        IF i > 1 /\ IsCasedChar(w[i - 1]) THEN ToLowerChar(w[i]) ELSE ToUpperChar(w[i])]

str_lower(w) == [i \in DOMAIN w |-> ToLowerChar(w[i])]

\* str.replace(a, b) for one-character a and b.
str_replace(s, a, b) == [i \in DOMAIN s |-> IF s[i] = a THEN b ELSE s[i]]

\* str.split(): the maximal runs of non-space characters.
RECURSIVE str_split(_)
str_split(s) ==
    IF s = <<>> THEN <<>>
    ELSE IF Head(s) = " " THEN str_split(Tail(s))
    ELSE LET stops == {i \in DOMAIN s : s[i] = " "}
             n == IF stops = {} THEN Len(s)
                  ELSE (CHOOSE i \in stops : \A j \in stops : i <= j) - 1
         IN <<SubSeq(s, 1, n)>> \o str_split(SubSeq(s, n + 1, Len(s)))

\* ' '.join(words)
RECURSIVE str_join(_)
str_join(words) ==
    IF words = <<>> THEN <<>>
    ELSE IF Len(words) = 1 THEN words[1]
    ELSE words[1] \o <<" ">> \o str_join(Tail(words))

(***************************************************************************)
(* File names: a directory token ("publish/", "journal/", "misc/"), the    *)
(* characters of the base name, and an extension token (".md", ".png").    *)
(***************************************************************************)
DirTokens == {"publish/", "journal/", "misc/"}
ExtTokens == {".md", ".png"}

\* filename.startswith(prefix) for a directory prefix
StartsWith(filename, prefix) == filename # <<>> /\ Head(filename) = prefix
\* filename.endswith(".md")
EndsWith(filename, ext) == filename # <<>> /\ filename[Len(filename)] = ext

\* pathlib: Path(p).stem, the final path component without its last suffix.
PathStem(filename) ==
    LET name == SelectSeq(filename, LAMBDA t : t \notin DirTokens)
        dots == {i \in DOMAIN name : i > 1 /\ (name[i] = "." \/ name[i] \in ExtTokens)}
    IN IF dots = {} THEN name
       ELSE SubSeq(name, 1, (CHOOSE i \in dots : \A j \in dots : j <= i) - 1)

\* re.sub(r'\.[^.]+$', '', filename)
remove_extension(filename) ==
    LET dots == {i \in DOMAIN filename : filename[i] = "." \/ filename[i] \in ExtTokens}
        last == CHOOSE i \in dots : \A j \in dots : j <= i
    IN IF dots = {} \/ (filename[last] = "." /\ last = Len(filename)) THEN filename
       ELSE SubSeq(filename, 1, last - 1)

\* generate_title: separators to spaces, each word title-cased unless it is
\* all upper-case.
generate_title(filename) ==
    LET base_name == str_replace(str_replace(remove_extension(filename), "_", " "), "-", " ")
        words == str_split(base_name)
    IN str_join([i \in DOMAIN words |->
                    IF ~str_isupper(words[i]) THEN str_title(words[i]) ELSE words[i]])

\* clean_text_for_filename: the slug of a title.
clean_text_for_filename(text) ==
    LET cleaned_text == str_replace(str_replace(text, " ", "_"), "-", " ")
    IN str_lower(SelectSeq(cleaned_text, IsAlnumChar))


LowerSet == {LowerChars[i] : i \in DOMAIN LowerChars}
UpperSet == {UpperChars[i] : i \in DOMAIN UpperChars}

\* generate_description helpers: re.findall of
\* [A-Z]?[a-z]+|[A-Z]+(?=[A-Z][a-z]|\d|\W|$)|\d+
\* The length of the run of characters of the class S that starts at position i.
RunLen(s, i, S) ==
    LET stops == {j \in i..Len(s) : s[j] \notin S}
    IN IF stops = {} THEN Len(s) - i + 1
       ELSE (CHOOSE j \in stops : \A k \in stops : j <= k) - i

\* The lookahead (?=[A-Z][a-z]|\d|\W|$) at position j (the character after the run).
AcronymLookahead(s, j) ==
    \/ j > Len(s)
    \/ s[j] \in DigitChars
    \/ ~IsAlnumChar(s[j]) /\ s[j] # "_"
    \/ IsUpperChar(s[j]) /\ j + 1 <= Len(s) /\ IsLowerChar(s[j + 1])

\* Length of the match of the regular expression at position i, 0 if none.
WordMatchLen(s, i) ==
    LET c == s[i]
        low == RunLen(s, i, LowerSet)
        lowAfter == IF i + 1 <= Len(s) THEN RunLen(s, i + 1, LowerSet) ELSE 0
        ups == RunLen(s, i, UpperSet)
        okLens == {n \in 1..ups : AcronymLookahead(s, i + n)}
    IN IF IsLowerChar(c) THEN low
       ELSE IF IsUpperChar(c) /\ lowAfter > 0 THEN 1 + lowAfter
       ELSE IF IsUpperChar(c) /\ okLens # {}
            THEN CHOOSE n \in okLens : \A m \in okLens : m <= n
       ELSE IF c \in DigitChars THEN RunLen(s, i, DigitChars)
       ELSE 0

RECURSIVE split_words_from(_, _)
split_words_from(s, i) ==
    IF i > Len(s) THEN <<>>
    ELSE LET n == WordMatchLen(s, i)
         IN IF n = 0 THEN split_words_from(s, i + 1)
            ELSE <<SubSeq(s, i, i + n - 1)>> \o split_words_from(s, i + n)

split_words(filename) == split_words_from(filename, 1)

\* str.capitalize()
str_capitalize(w) ==
    [i \in DOMAIN w |-> IF i = 1 THEN ToUpperChar(w[i]) ELSE ToLowerChar(w[i])]

process_word(word) ==
    IF str_isupper(word) /\ Len(word) > 1 THEN word
    ELSE IF word # <<>> /\ \A i \in DOMAIN word : word[i] \in DigitChars THEN word
    ELSE str_capitalize(word)

generate_description(filename) ==
    LET words == split_words(remove_extension(filename))
    IN str_join([i \in DOMAIN words |-> process_word(words[i])])

(***************************************************************************)
(* Documents.                                                              *)
(***************************************************************************)
Tok(k, v) == [k |-> k, v |-> v]
NL == Tok("nl", <<>>)
FENCE == Tok("fence", <<>>)
TXT == Tok("txt", <<>>)
YamlKeys == {"title", "description", "date", "ogImage", "dupdate"}

\* datetime.now().strftime("%Y-%m-%d"), fixed for the run and its rerun.
Today == "2026-11-02"
Yesterday == "2026-11-01"
formatted_date == <<"str", Today>>

\* The regular expression ^\s*---(.*?)---  (re.DOTALL): leading whitespace, the
\* first fence, then lazily up to the next fence.
HeaderMatch(content) ==
    LET nonspace == {i \in DOMAIN content : content[i].k # "nl"}
        open == IF nonspace = {} THEN 0
                ELSE CHOOSE i \in nonspace : \A j \in nonspace : i <= j
        closes == {i \in DOMAIN content : i > open /\ content[i].k = "fence"}
    IN IF open = 0 \/ content[open].k # "fence" \/ closes = {}
       THEN [found |-> FALSE, open |-> 0, close |-> 0]
       ELSE [found |-> TRUE, open |-> open,
             close |-> CHOOSE i \in closes : \A j \in closes : i <= j]

MatchGroup(content) ==
    LET m == HeaderMatch(content) IN SubSeq(content, m.open + 1, m.close - 1)
\* What follows the match: re.sub leaves it as it is.
AfterMatch(content) ==
    LET m == HeaderMatch(content) IN SubSeq(content, m.close + 1, Len(content))

\* yaml.load of the text between the fences: a mapping (its items in document
\* order), None for an empty document, or a scalar for anything else.
yaml_load(text) ==
    IF \E i \in DOMAIN text : text[i].k \notin YamlKeys \cup {"nl"}
    THEN [kind |-> "scalar", items |-> <<>>]
    ELSE LET items == SelectSeq(text, LAMBDA t : t.k \in YamlKeys)
         IN [kind |-> IF items = <<>> THEN "none" ELSE "map", items |-> items]

\* dict operations on a mapping kept as its items in insertion order.
Has(props, key) == \E i \in DOMAIN props : props[i].k = key
\* dict.get(key): <<>> stands for None.
Get(props, key) ==
    IF Has(props, key) THEN props[CHOOSE i \in DOMAIN props : props[i].k = key].v
    ELSE <<>>
\* props[key] = value
Put(props, key, value) ==
    IF Has(props, key)
    THEN [i \in DOMAIN props |-> IF props[i].k = key THEN Tok(key, value) ELSE props[i]]
    ELSE Append(props, Tok(key, value))
\* props.setdefault(key, value)
SetDefault(props, key, value) ==
    IF Has(props, key) THEN props ELSE Append(props, Tok(key, value))

\* og_image.get('url') of an ogImage mapping value
UrlOf(og_image) ==
    IF og_image # <<>> /\ Head(og_image) = "url" THEN Tail(og_image) ELSE <<>>

\* YAML(typ='safe').dump: block style, keys sorted.
SortedKeys == <<"date", "description", "dupdate", "ogImage", "title">>
yaml_dump_safe(props) ==
    LET present == SelectSeq(SortedKeys, LAMBDA key : Has(props, key))
    IN [i \in DOMAIN present |-> Tok(present[i], Get(props, present[i]))]
\* YAML().dump (round trip): block style, insertion order.
yaml_dump_rt(props) == props

cdn_url_prefix ==
    "https://cdn.jsdelivr.net/gh/mohankumarpaluru/blog-cover-generator@main/public/assets/blog/covers/"

\* str.strip() of a document
RECURSIVE LStrip(_)
LStrip(s) == IF s # <<>> /\ Head(s).k = "nl" THEN LStrip(Tail(s)) ELSE s
RECURSIVE RStrip(_)
RStrip(s) ==
    IF s # <<>> /\ s[Len(s)].k = "nl" THEN RStrip(SubSeq(s, 1, Len(s) - 1)) ELSE s
Strip(s) == RStrip(LStrip(s))

\* The results of update_properties.  kind "noop" is the (False, False, False)
\* return, "raise" an uncaught exception; png = <<>> stands for False.
Result(kind, title, png, content) ==
    [kind |-> kind, title |-> title, png |-> png, content |-> content]
Raised == Result("raise", <<>>, <<>>, <<>>)
NoChanges == Result("noop", <<>>, <<>>, <<>>)

\* generate_cover_images.py: update_properties, a document with a header.
CoversWithHeader(file_path, file_content) ==
    LET loaded == yaml_load(MatchGroup(file_content))
        p0 == loaded.items
        note_title == IF Get(p0, "title") = <<>> THEN PathStem(file_path)
                      ELSE Get(p0, "title")
        p1 == IF Get(p0, "title") = <<>> THEN Put(p0, "title", note_title) ELSE p0
        note_date == Get(p1, "date")
        dont_up_date == Get(p1, "dupdate") = <<"true">>
        og_image_url == UrlOf(Get(p1, "ogImage"))
        png_file_name == IF og_image_url # <<>> THEN <<>>
                         ELSE clean_text_for_filename(note_title) \o <<".png">>
        p2 == IF og_image_url # <<>> THEN p1
              ELSE SetDefault(p1, "ogImage", <<"url", cdn_url_prefix>> \o png_file_name)
        p3 == IF ~dont_up_date THEN Put(p2, "date", formatted_date) ELSE p2
    IN IF loaded.kind # "map" THEN Raised
       ELSE IF og_image_url # <<>> /\ note_date = formatted_date THEN NoChanges
       ELSE Result("changed", note_title, png_file_name,
                   <<FENCE, NL>> \o yaml_dump_safe(p3) \o <<FENCE>>
                       \o AfterMatch(file_content))

\* generate_cover_images.py: update_properties, no header found.
CoversNoHeader(file_path, file_content) ==
    LET note_title == PathStem(file_path)
        png_file_name == clean_text_for_filename(note_title) \o <<".png">>
        properties == <<Tok("title", note_title),
                        Tok("ogImage", <<"url", cdn_url_prefix>> \o png_file_name),
                        Tok("date", formatted_date)>>
    IN Result("changed", note_title, png_file_name,
              <<FENCE, NL>> \o yaml_dump_safe(properties) \o <<FENCE, NL, NL>>
                  \o file_content)

update_properties_covers(file_path, file_content) ==
    IF HeaderMatch(file_content).found
    THEN CoversWithHeader(file_path, file_content)
    ELSE CoversNoHeader(file_path, file_content)

\* update_frontmatter.py: update_properties.
update_properties_frontmatter(file_path, file_content) ==
    LET found == HeaderMatch(file_content).found
        loaded == IF found THEN yaml_load(MatchGroup(file_content))
                  ELSE [kind |-> "none", items |-> <<>>]
        p0 == loaded.items
        p1 == IF ~Has(p0, "title")
              THEN Put(p0, "title", generate_title(PathStem(file_path))) ELSE p0
        p2 == IF ~Has(p1, "description")
              THEN Put(p1, "description", generate_description(PathStem(file_path)))
              ELSE p1
        p3 == Put(p2, "date", formatted_date)
        updated_front_matter == <<FENCE, NL>> \o yaml_dump_rt(p3) \o <<FENCE, NL>>
    IN IF loaded.kind = "scalar" THEN Raised
       ELSE Result("changed", <<>>, <<>>,
                   IF found THEN updated_front_matter \o AfterMatch(file_content)
                   ELSE updated_front_matter \o <<NL>> \o Strip(file_content))

update_properties(v, file_path, file_content) ==
    IF v = "covers" THEN update_properties_covers(file_path, file_content)
    ELSE update_properties_frontmatter(file_path, file_content)

(***************************************************************************)
(* The state of one invocation of a script (and of the hosting service).   *)
(***************************************************************************)
VARIABLES
    variant,        \* "covers": generate_cover_images.py, "frontmatter": update_frontmatter.py
    notes_files,    \* the file list of the latest commit of the notes repository
    remote,         \* the notes repository's files at its head: path -> content
    pc,             \* the position of the run
    idx,            \* the index of the next entry of notes_files (the for loop)
    publish_flag,   \* self.publish_flag
    journal_flag,   \* self.journal_flag
    png_files,      \* the dict png_files: items [path, content] in insertion order
    updated_notes,  \* the dict updated_notes: items [path, content] in insertion order
    last,           \* the latest call of update_properties: its arguments and result
    pass,           \* 1: the run, 2: a rerun over the files the run rewrote
    cur,            \* the repository the committer works on
    payload,        \* file_paths of commit_files
    tree_list,      \* tree_list of commit_files: the shas of the blobs created
    main_sha,       \* main_sha of commit_files
    branch_sha,     \* self.branch.commit.sha of the committer
    new_tree,       \* new_tree.sha of commit_files
    commit,         \* commit.sha of create_commit_and_push
    ref,            \* heads/main of each repository
    api_log,        \* the object-creating and ref-moving calls made, in order
    failed_at       \* the position at which a hosting-API call failed, "" if none

vars == <<variant, notes_files, remote, pc, idx, publish_flag, journal_flag,
          png_files, updated_notes, last, pass, cur, payload, tree_list, main_sha,
          branch_sha, new_tree, commit, ref, api_log, failed_at>>

collectorVars == <<publish_flag, journal_flag, png_files, updated_notes, last>>
committerVars == <<cur, payload, tree_list, main_sha, branch_sha, new_tree, commit>>
serviceVars == <<ref, api_log>>

Variants == {"covers", "frontmatter"}
Repos == {"covers", "notes"}

COVERS_DIR == "public/assets/blog/covers/"
PUBLISH_TRIGGER_FILE == <<".github/trigger_files/publish.txt">>
JOURNAL_TRIGGER_FILE == <<".github/trigger_files/journal.txt">>

\* Python dict as its items in insertion order: d[path] = content
DictSet(d, path, content) ==
    IF \E i \in DOMAIN d : d[i].path = path
    THEN [i \in DOMAIN d |->
            IF d[i].path = path THEN [path |-> path, content |-> content] ELSE d[i]]
    ELSE Append(d, [path |-> path, content |-> content])
DictHas(d, path) == \E i \in DOMAIN d : d[i].path = path
DictGet(d, path) == d[CHOOSE i \in DOMAIN d : d[i].path = path].content

(***************************************************************************)
(* The inputs: file names and documents.                                   *)
(***************************************************************************)
MaxBody == 2

RECURSIVE SeqsUpTo(_, _)
SeqsUpTo(S, n) ==
    IF n = 0 THEN {<<>>}
    ELSE LET shorter == SeqsUpTo(S, n - 1)
         IN shorter \cup {Append(q, x) : q \in shorter, x \in S}

MyCoolPost == <<"publish/", "m", "y", "-", "c", "o", "o", "l", "_", "P", "o", "s", "t", ".md">>
NasaReport == <<"journal/", "N", "A", "S", "A", "_", "r", "e", "p", "o", "r", "t", ".md">>
DottedNote == <<"misc/", "n", "o", "t", "e", "s", ".", "2", ".md">>
PublishPng == <<"publish/", "a", ".png">>
MdFiles == {MyCoolPost, NasaReport, DottedNote}

TitleOpts == {<<>>, <<Tok("title", <<>>)>>,
              <<Tok("title", <<"M", "y", " ", "P", "o", "s", "t", "!">>)>>,
              <<Tok("title", <<"M", "y", " ", "P", "o", "s", "t", "!">>),
                Tok("description", <<"P", "o", "s", "t">>)>>}
DateOpts == {<<>>, <<Tok("date", <<"str", Today>>)>>, <<Tok("date", <<"str", Yesterday>>)>>,
             <<Tok("date", <<"date", Today>>)>>}
OgOpts == {<<>>, <<Tok("ogImage", <<"alt">>)>>,
           <<Tok("ogImage", <<"url", "https://example.org/c.png">>)>>}
DupOpts == {<<>>, <<Tok("dupdate", <<"true">>)>>, <<Tok("dupdate", <<"false">>)>>}

HeaderEntries ==
    {t \o da \o og \o du :
        t \in TitleOpts, da \in DateOpts, og \in OgOpts, du \in DupOpts}
\* Headers for the documents whose body varies: one per path of update_properties.
FewHeaders ==
    {<<>>,
     <<Tok("title", <<"M", "y", " ", "P", "o", "s", "t", "!">>)>>,
     <<Tok("date", <<"str", Yesterday>>), Tok("dupdate", <<"true">>)>>,
     <<Tok("title", <<"M", "y", " ", "P", "o", "s", "t", "!">>),
       Tok("date", <<"str", Today>>),
       Tok("ogImage", <<"url", "https://example.org/c.png">>)>>}
Bodies == SeqsUpTo({NL, TXT, FENCE}, MaxBody)
WithHeader(lead, h, b) == lead \o <<FENCE, NL>> \o h \o <<FENCE>> \o b
\* A header whose closing fence is missing.
Unclosed == <<FENCE, NL, Tok("title", <<"M", "y">>), NL, TXT>>
\* Every header over two bodies, a few headers over every body and leading
\* whitespace, and the documents that are only a body.
Docs ==
    {WithHeader(<<>>, h, b) : h \in HeaderEntries, b \in {<<NL, TXT>>, <<NL, TXT, NL>>}}
    \cup {WithHeader(lead, h, b) : lead \in {<<>>, <<NL>>}, h \in FewHeaders, b \in Bodies}
    \cup Bodies \cup {Unclosed}

NoCall == [pass |-> 0, f |-> <<>>, input |-> <<>>, r |-> Result("none", <<>>, <<>>, <<>>)]
OldLog == <<Tok("line", <<"old">>)>>

InitRest ==
    /\ pc = "start"
    /\ idx = 1
    /\ publish_flag = FALSE
    /\ journal_flag = FALSE
    /\ png_files = <<>>
    /\ updated_notes = <<>>
    /\ last = NoCall
    /\ pass = 1
    /\ cur = ""
    /\ payload = <<>>
    /\ tree_list = <<>>
    /\ main_sha = 0
    /\ branch_sha = 0
    /\ new_tree = 0
    /\ commit = 0
    /\ ref = [r \in Repos |-> 0]
    /\ api_log = <<>>
    /\ failed_at = ""

\* One changed file, any document.
Init ==
    /\ variant \in Variants
    /\ \E f \in MdFiles \cup {PublishPng}, st \in {"modified", "removed"}, d \in Docs :
        /\ (f = PublishPng \/ st = "removed") => d = <<>>
        /\ notes_files = <<[filename |-> f, status |-> st]>>
        /\ remote = [x \in {f, PUBLISH_TRIGGER_FILE, JOURNAL_TRIGGER_FILE} |->
                        IF x = f THEN d ELSE OldLog]
    /\ InitRest

(***************************************************************************)
(* The collector.                                                          *)
(***************************************************************************)
\* files_from_last_commit
FilesFromLastCommit ==
    /\ pc = "start"
    /\ pc' = IF notes_files = <<>> THEN "collected" ELSE "collect"
    /\ UNCHANGED <<variant, notes_files, remote, idx, pass, failed_at>>
    /\ UNCHANGED <<collectorVars, committerVars, serviceVars>>

\* create_image: the title as drawn and the style preset picked at random.
create_image(input_text, style) ==
    <<Tok("image", (IF str_isupper(input_text) THEN input_text ELSE str_title(input_text))
                     \o <<style>>)>>
Styles == {"cover-black-red", "cover-white-cyan"}

Skipped(note_file) ==
    ~EndsWith(note_file.filename, ".md")
        \/ note_file.status \in {"removed", "renamed", "deleted"}

\* One iteration of the loop of get_updated_files_png / get_updated_files.
CollectFile ==
    /\ pc = "collect"
    /\ idx <= Len(notes_files)
    /\ \E note_file \in {notes_files[idx]} :
       \E filename \in {note_file.filename} :
       \E reconciled \in {~Skipped(note_file)} :
       \E r \in {IF reconciled
                 THEN update_properties(variant, filename, remote[filename])
                 ELSE NoChanges} :
          /\ publish_flag' = (publish_flag \/ StartsWith(filename, "publish/"))
          /\ journal_flag' = (journal_flag \/ StartsWith(filename, "journal/"))
          /\ last' = IF reconciled
                     THEN [pass |-> pass, f |-> filename, input |-> remote[filename], r |-> r]
                     ELSE last
          /\ updated_notes' = IF r.kind = "changed"
                              THEN DictSet(updated_notes, filename, r.content)
                              ELSE updated_notes
          /\ \E style \in IF r.png # <<>> THEN Styles ELSE {"none"} :
                png_files' = IF r.png # <<>>
                             THEN DictSet(png_files, <<COVERS_DIR>> \o r.png,
                                          create_image(r.title, style))
                             ELSE png_files
          /\ pc' = IF r.kind = "raise" THEN "aborted"
                   ELSE IF idx = Len(notes_files) THEN "collected" ELSE "collect"
    /\ idx' = idx + 1
    /\ UNCHANGED <<variant, notes_files, remote, pass, failed_at>>
    /\ UNCHANGED <<committerVars, serviceVars>>

\* A second invocation on the same day, over the files as the first one rewrote
\* them: a new collector, the same changed paths.
Rerun ==
    /\ pc = "collected"
    /\ pass = 1
    /\ pass' = 2
    /\ remote' = [x \in DOMAIN remote |->
                    IF DictHas(updated_notes, x) THEN DictGet(updated_notes, x)
                    ELSE remote[x]]
    /\ pc' = "start"
    /\ idx' = 1
    /\ publish_flag' = FALSE
    /\ journal_flag' = FALSE
    /\ png_files' = <<>>
    /\ updated_notes' = <<>>
    /\ UNCHANGED <<variant, notes_files, last, failed_at>>
    /\ UNCHANGED <<committerVars, serviceVars>>

Next == FilesFromLastCommit \/ CollectFile \/ Rerun

Spec == Init /\ [][Next]_vars

(***************************************************************************)
(* The whole run: collector, trigger files, committers, and the failures   *)
(* of the hosting API.                                                     *)
(***************************************************************************)
MaxFiles == 2

AlreadyCurrent ==
    WithHeader(<<>>, <<Tok("title", <<"M", "y", " ", "P", "o", "s", "t", "!">>),
                       Tok("date", <<"str", Today>>),
                       Tok("ogImage", <<"url", "https://example.org/c.png">>)>>, <<NL, TXT>>)
NeedsCover ==
    WithHeader(<<>>, <<Tok("title", <<"M", "y", " ", "P", "o", "s", "t", "!">>)>>, <<NL, TXT>>)
RunDocs == {AlreadyCurrent, NeedsCover, <<TXT, NL>>}

ChangeRecords ==
    {[filename |-> f, status |-> "modified", doc |-> d] : f \in MdFiles, d \in RunDocs}
    \cup {[filename |-> MyCoolPost, status |-> "removed", doc |-> <<>>],
          [filename |-> PublishPng, status |-> "added", doc |-> <<>>]}

\* The file lists of a commit: no path twice.
Commits ==
    {c \in SeqsUpTo(ChangeRecords, MaxFiles) :
        \A i, j \in DOMAIN c : i # j => c[i].filename # c[j].filename}

InitRun ==
    /\ variant \in Variants
    /\ \E c \in Commits :
        /\ notes_files = [i \in DOMAIN c |->
                            [filename |-> c[i].filename, status |-> c[i].status]]
        /\ remote = [x \in {c[i].filename : i \in DOMAIN c}
                            \cup {PUBLISH_TRIGGER_FILE, JOURNAL_TRIGGER_FILE} |->
                        IF x \in {PUBLISH_TRIGGER_FILE, JOURNAL_TRIGGER_FILE} THEN OldLog
                        ELSE c[CHOOSE i \in DOMAIN c : c[i].filename = x].doc]
    /\ InitRest

\* datetime.now().strftime('%Y-%m-%d %H:%M:%S')
formatted_datetime == "2026-11-02 08:00:00"

\* generate_cover_images.py: update_trigger_file
update_trigger_file(file_content, updates_exist) ==
    file_content \o
        <<Tok("line", <<IF updates_exist # <<>> THEN "Covers Updated on"
                        ELSE "No covers were updated:", formatted_datetime>>)>>

\* update_frontmatter.py: generate_trigger_file_content
generate_trigger_file_content ==
    <<Tok("line", <<"Front Matter Updated on", formatted_datetime>>)>>

\* add_triggers of either script: the dict files_dict after the call.
add_triggers(trigger_file, files_dict, png_dict) ==
    IF variant = "covers"
    THEN DictSet(files_dict, trigger_file,
                 update_trigger_file(remote[trigger_file], png_dict))
    ELSE IF DictHas(files_dict, trigger_file) THEN files_dict
    ELSE DictSet(files_dict, trigger_file, generate_trigger_file_content)

\* run_cover_checker: if self.<flag>: updated_notes_dict = self.add_triggers(...)
AddTrigger(flag, trigger_file, from, to) ==
    /\ pc = from
    /\ updated_notes' = IF flag THEN add_triggers(trigger_file, updated_notes, png_files)
                        ELSE updated_notes
    /\ pc' = to
    /\ UNCHANGED <<variant, notes_files, remote, idx, pass, failed_at>>
    /\ UNCHANGED <<publish_flag, journal_flag, png_files, last>>
    /\ UNCHANGED <<committerVars, serviceVars>>

\* run_cover_checker: the covers committer when png_files_dict is not empty
\* (generate_cover_images.py only), else the notes committer.
ChooseCommitter ==
    /\ pc = "triggered"
    /\ cur' = IF variant = "covers" /\ png_files # <<>> THEN "covers" ELSE "notes"
    /\ payload' = IF variant = "covers" /\ png_files # <<>> THEN png_files
                  ELSE updated_notes
    /\ pc' = "ctor"
    /\ UNCHANGED <<variant, notes_files, remote, idx, pass, failed_at>>
    /\ UNCHANGED <<tree_list, main_sha, branch_sha, new_tree, commit>>
    /\ UNCHANGED <<collectorVars, serviceVars>>

\* GithubCommitter.__init__: self.branch = self.repo.get_branch(branch_name)
Ctor ==
    /\ pc = "ctor"
    /\ branch_sha' = ref[cur]
    /\ pc' = "get_ref"
    /\ UNCHANGED <<variant, notes_files, remote, idx, pass, failed_at>>
    /\ UNCHANGED <<cur, payload, tree_list, main_sha, new_tree, commit>>
    /\ UNCHANGED <<collectorVars, serviceVars>>

\* commit_files: main_ref = get_git_ref('heads/main'); main_sha; the empty lists
GetRef ==
    /\ pc = "get_ref"
    /\ main_sha' = ref[cur]
    /\ tree_list' = <<>>
    /\ pc' = IF payload = <<>> THEN "tree" ELSE "blob"
    /\ UNCHANGED <<variant, notes_files, remote, idx, pass, failed_at>>
    /\ UNCHANGED <<cur, payload, branch_sha, new_tree, commit>>
    /\ UNCHANGED <<collectorVars, serviceVars>>

Call(op, repo, sha, refs) == [op |-> op, repo |-> repo, sha |-> sha, refs |-> refs]
\* The sha of the next object the service creates.
NewSha == Len(api_log) + 1

\* commit_files: one iteration of the loop, create_git_blob and the tree element
CreateBlob ==
    /\ pc = "blob"
    /\ api_log' = Append(api_log, Call("create_git_blob", cur, NewSha, <<>>))
    /\ tree_list' = Append(tree_list, NewSha)
    /\ pc' = IF Len(tree_list) + 1 = Len(payload) THEN "tree" ELSE "blob"
    /\ UNCHANGED <<variant, notes_files, remote, idx, pass, failed_at>>
    /\ UNCHANGED <<cur, payload, main_sha, branch_sha, new_tree, commit, ref>>
    /\ UNCHANGED collectorVars

\* commit_files: create_git_tree(tree=tree_list, base_tree=get_git_tree(main_sha))
CreateTree ==
    /\ pc = "tree"
    /\ api_log' = Append(api_log, Call("create_git_tree", cur, NewSha, tree_list))
    /\ new_tree' = NewSha
    /\ pc' = "commit"
    /\ UNCHANGED <<variant, notes_files, remote, idx, pass, failed_at>>
    /\ UNCHANGED <<cur, payload, tree_list, main_sha, branch_sha, commit, ref>>
    /\ UNCHANGED collectorVars

\* Mutant of CreateCommit: the commit is given the base tree, not the new tree.
CreateCommitOnBaseTree ==
    /\ pc = "commit"
    /\ api_log' = Append(api_log,
                         Call("create_git_commit", cur, NewSha, <<main_sha, branch_sha>>))
    /\ commit' = NewSha
    /\ pc' = "ref_edit"
    /\ UNCHANGED <<variant, notes_files, remote, idx, pass, failed_at>>
    /\ UNCHANGED <<cur, payload, tree_list, main_sha, branch_sha, new_tree, ref>>
    /\ UNCHANGED collectorVars

\* create_commit_and_push: create_git_commit(tree=new_tree, parents=[branch head])
CreateCommit ==
    /\ pc = "commit"
    /\ api_log' = Append(api_log,
                         Call("create_git_commit", cur, NewSha, <<new_tree, branch_sha>>))
    /\ commit' = NewSha
    /\ pc' = "ref_edit"
    /\ UNCHANGED <<variant, notes_files, remote, idx, pass, failed_at>>
    /\ UNCHANGED <<cur, payload, tree_list, main_sha, branch_sha, new_tree, ref>>
    /\ UNCHANGED collectorVars

\* create_commit_and_push: main_ref.edit(sha=commit.sha); then run_cover_checker
\* goes on to the notes committer, or ends.
RefEdit ==
    /\ pc = "ref_edit"
    /\ ref' = [ref EXCEPT ![cur] = commit]
    /\ api_log' = Append(api_log, Call("ref.edit", cur, 0, <<commit>>))
    /\ cur' = "notes"
    /\ payload' = IF cur = "covers" THEN updated_notes ELSE payload
    /\ pc' = IF cur = "covers" THEN "ctor" ELSE "done"
    /\ UNCHANGED <<variant, notes_files, remote, idx, pass, failed_at>>
    /\ UNCHANGED <<tree_list, main_sha, branch_sha, new_tree, commit>>
    /\ UNCHANGED collectorVars

\* The positions at which the run calls the hosting API.
CallsApi ==
    CASE pc = "collect" -> idx <= Len(notes_files) /\ ~Skipped(notes_files[idx])
      [] pc = "collected" -> variant = "covers" /\ publish_flag
      [] pc = "trig_journal" -> variant = "covers" /\ journal_flag
      [] OTHER -> pc \in {"start", "ctor", "get_ref", "blob", "tree", "commit", "ref_edit"}

\* Mutant of ApiFail: a failed tree creation is caught and the ref is moved
\* all the same.
ApiFailCaught ==
    /\ CallsApi
    /\ failed_at' = pc
    /\ pc' = IF pc = "tree" THEN "ref_edit" ELSE "aborted"
    /\ UNCHANGED <<variant, notes_files, remote, idx, pass>>
    /\ UNCHANGED <<collectorVars, committerVars, serviceVars>>

\* A hosting-API call raises: nothing catches it, the run ends.
ApiFail ==
    /\ CallsApi
    /\ failed_at' = pc
    /\ pc' = "aborted"
    /\ UNCHANGED <<variant, notes_files, remote, idx, pass>>
    /\ UNCHANGED <<collectorVars, committerVars, serviceVars>>

NextRun ==
    \/ FilesFromLastCommit
    \/ CollectFile
    \/ AddTrigger(publish_flag, PUBLISH_TRIGGER_FILE, "collected", "trig_journal")
    \/ AddTrigger(journal_flag, JOURNAL_TRIGGER_FILE, "trig_journal", "triggered")
    \/ ChooseCommitter
    \/ Ctor
    \/ GetRef
    \/ CreateBlob
    \/ CreateTree
    \/ CreateCommit
    \/ RefEdit
    \/ ApiFail

SpecRun == InitRun /\ [][NextRun]_vars

(***************************************************************************)
(* The properties.  They read the latest call of update_properties (last): *)
(* its input document, its result, and what the collector staged for it.   *)
(***************************************************************************)
Called == last.r.kind \in {"changed", "noop", "raise"}
Rewrote == last.r.kind = "changed"
InputHasHeader == HeaderMatch(last.input).found
\* The mapping of the input's header and of the output's header.
InputProps == IF InputHasHeader THEN yaml_load(MatchGroup(last.input)).items ELSE <<>>
OutputProps == yaml_load(MatchGroup(last.r.content)).items
KeysOf(props) == {props[i].k : i \in DOMAIN props}
\* The text that follows the header block: the whole text when there is none.
BodyOf(content) == IF HeaderMatch(content).found THEN AfterMatch(content) ELSE content
StoredDay(props) == IF Get(props, "date") = <<>> THEN "" ELSE Get(props, "date")[2]
\* The collector staged a rewritten document (a cover job) for the latest call.
StagedDocument == last.pass = pass /\ DictHas(updated_notes, last.f)
StagedJob == last.pass = pass /\ last.r.png # <<>>
                /\ DictHas(png_files, <<COVERS_DIR>> \o last.r.png)

\* C1: a document with a header whose ogImage.url is set and whose date is
\* today is left alone: "no changes" is signalled, no cover job is emitted and
\* no rewritten document is staged.
C1_CurrentDocumentIsNoOp ==
    (Called /\ UrlOf(Get(InputProps, "ogImage")) # <<>> /\ StoredDay(InputProps) = Today)
        => (last.r.kind = "noop" /\ ~StagedDocument /\ ~StagedJob)

\* C2: the text after the header block is the same in the output as in the
\* input; only the header block and the blank-line separator differ.
SameBodyAfterSeparator(input, output) ==
    /\ HeaderMatch(output).found
    /\ LET after == AfterMatch(output)
       IN \E n \in 0..Len(after) :
            /\ \A i \in 1..n : after[i].k = "nl"
            /\ SubSeq(after, n + 1, Len(after)) = BodyOf(input)
C2_BodyPreserved ==
    Rewrote => SameBodyAfterSeparator(last.input, last.r.content)

\* C3: a document without a header gets a header with exactly the keys title,
\* ogImage (with its url) and date, then one blank line, then the text unchanged.
C3_NewHeaderForHeaderless ==
    (Called /\ ~InputHasHeader)
        => /\ Rewrote
           /\ HeaderMatch(last.r.content).found
           /\ KeysOf(OutputProps) = {"title", "ogImage", "date"}
           /\ UrlOf(Get(OutputProps, "ogImage")) # <<>>
           /\ AfterMatch(last.r.content) = <<NL, NL>> \o last.input

\* C4: a second pass on the same day over the output of the first changes
\* nothing: it is the no-op case and stages no rewritten document.
C4_SecondPassIsNoOp ==
    (Called /\ last.pass = 2) => (last.r.kind = "noop" /\ ~StagedDocument)

\* C8: when a document with a header is rewritten, a truthy dupdate keeps date
\* (not added, not overwritten) and dupdate as they were; otherwise the date
\* written is today.
C8_DupdateKeepsDate ==
    (Rewrote /\ InputHasHeader)
        => IF Get(InputProps, "dupdate") = <<"true">>
           THEN /\ Has(OutputProps, "date") = Has(InputProps, "date")
                /\ Get(OutputProps, "date") = Get(InputProps, "date")
                /\ Get(OutputProps, "dupdate") = Get(InputProps, "dupdate")
           ELSE Get(OutputProps, "date") = formatted_date

\* C9: in generate_cover_images.py, outside the no-op case, a cover job is
\* registered exactly when the input has no ogImage.url; the url written is then
\* the CDN prefix followed by the job's file name; an existing url stays and
\* registers no job.
C9_JobIffNoUrl ==
    (variant = "covers" /\ Rewrote /\ last.pass = pass)
        => /\ StagedJob <=> UrlOf(Get(InputProps, "ogImage")) = <<>>
           /\ StagedJob =>
                UrlOf(Get(OutputProps, "ogImage")) = <<cdn_url_prefix>> \o last.r.png
           /\ UrlOf(Get(InputProps, "ogImage")) # <<>> =>
                Get(OutputProps, "ogImage") = Get(InputProps, "ogImage")

\* The title the specification derives from a file name: the stem with '_' and
\* '-' replaced by spaces, each word title-cased unless it is all upper-case.
SpecTitle(filename) ==
    LET spaced == str_replace(str_replace(PathStem(filename), "_", " "), "-", " ")
        words == str_split(spaced)
    IN str_join([i \in DOMAIN words |->
                    IF str_isupper(words[i]) THEN words[i] ELSE str_title(words[i])])

\* C10: without a title in the header (or without a header) the title written
\* is the one derived from the file name; an existing title is never changed.
C10_TitleFromFilename ==
    Rewrote
        => IF Has(InputProps, "title")
           THEN Get(OutputProps, "title") = Get(InputProps, "title")
           ELSE Get(OutputProps, "title") = SpecTitle(last.f)

(***************************************************************************)
(* The properties of the committer and of the run, read from the calls the *)
(* hosting service received.                                               *)
(***************************************************************************)
CallsOf(op, repo) ==
    {i \in DOMAIN api_log : api_log[i].op = op /\ api_log[i].repo = repo}
\* The payload handed to the publish of a repository.
PayloadOf(repo) == IF repo = "covers" THEN png_files ELSE updated_notes
\* The value of every branch ref before the run.
PreRunSha == [r \in Repos |-> 0]

\* C5: when a blob, tree or commit creation fails in commit_files, the branch
\* ref of the repository keeps its pre-run value and was never moved; when the
\* tree creation fails, no commit object was created either.
C5_PublishIsAtomic ==
    failed_at \in {"blob", "tree", "commit"}
        => /\ ref[cur] = PreRunSha[cur]
           /\ CallsOf("ref.edit", cur) = {}
           /\ failed_at = "tree" => CallsOf("create_git_commit", cur) = {}

\* C5's case: the tree creation failed after blobs had been created.
C5_TreeCreationFailed ==
    pc = "aborted" /\ failed_at = "tree" /\ tree_list # <<>>

\* C6: when a hosting-API call fails at any step of the run, no branch ref of
\* the covers or of the notes repository has been advanced by the run.
C6_FailedRunMovesNoRef ==
    failed_at # "" => \A repo \in Repos : ref[repo] = PreRunSha[repo]

\* C7: within one publish every blob of the payload is created before the
\* tree, the tree before the commit, the commit before the ref is moved; the
\* ref is moved at most once, to the commit of this publish, whose tree is the
\* tree of this publish.
C7_PublishOrder ==
    \A repo \in Repos :
        LET blobs == CallsOf("create_git_blob", repo)
            trees == CallsOf("create_git_tree", repo)
            commits == CallsOf("create_git_commit", repo)
            edits == CallsOf("ref.edit", repo)
        IN /\ Cardinality(edits) <= 1
           /\ \A t \in trees :
                /\ \A b \in blobs : b < t
                /\ Len(api_log[t].refs) = Len(PayloadOf(repo))
                /\ {api_log[t].refs[k] : k \in DOMAIN api_log[t].refs}
                        = {api_log[b].sha : b \in blobs}
           /\ \A c \in commits :
                \E t \in trees : t < c /\ api_log[c].refs[1] = api_log[t].sha
           /\ \A e \in edits :
                \E c \in commits :
                    /\ c < e
                    /\ api_log[e].refs = <<api_log[c].sha>>
                    /\ ref[repo] = api_log[c].sha
           /\ edits = {} => ref[repo] = PreRunSha[repo]

\* C7's case: a run that published covers and then notes, the notes payload
\* holding several files.
C7_BothPublished ==
    /\ pc = "done"
    /\ CallsOf("ref.edit", "covers") # {}
    /\ CallsOf("ref.edit", "notes") # {}
    /\ Cardinality(CallsOf("create_git_blob", "notes")) >= 2

(***************************************************************************)
(* The properties of the collector's flags, of the trigger files and of    *)
(* the publishes of a run.                                                 *)
(***************************************************************************)
\* An entry the specification skips for its status.
StatusSkipped(note_file) == note_file.status \in {"removed", "renamed", "deleted"}
\* Some entry that is not skipped for its status has a path with this prefix.
PrefixChanged(prefix) ==
    \E i \in DOMAIN notes_files :
        ~StatusSkipped(notes_files[i]) /\ StartsWith(notes_files[i].filename, prefix)
\* The positions of the run after the loop of the collector, and after both
\* trigger files were handled.
AfterTriggers == pc \in {"triggered", "ctor", "get_ref", "blob", "tree", "commit",
                         "ref_edit", "done"}
AfterCollect == pc \in {"collected", "trig_journal"} \/ AfterTriggers
TriggerFiles == {PUBLISH_TRIGGER_FILE, JOURNAL_TRIGGER_FILE}

\* C11: after the collector has gone through the file list, a category flag is
\* raised exactly when some entry not skipped for its status (removed, renamed,
\* deleted) has a path with the category's prefix, markdown or not; nothing is
\* staged for a skipped entry; a trigger file is staged exactly for the
\* categories whose flag is raised.
C11_FlagsFromUnskippedEntries ==
    /\ AfterCollect =>
        /\ publish_flag <=> PrefixChanged("publish/")
        /\ journal_flag <=> PrefixChanged("journal/")
        /\ \A i \in DOMAIN notes_files :
            StatusSkipped(notes_files[i]) => ~DictHas(updated_notes, notes_files[i].filename)
    /\ AfterTriggers =>
        /\ DictHas(updated_notes, PUBLISH_TRIGGER_FILE) <=> publish_flag
        /\ DictHas(updated_notes, JOURNAL_TRIGGER_FILE) <=> journal_flag

\* C12: a trigger file staged for commit holds the content the file has on the
\* remote, followed by exactly one new line that carries the timestamp.
C12_TriggerFileGrowsByOneLine ==
    AfterTriggers =>
        \A tf \in TriggerFiles :
            DictHas(updated_notes, tf) =>
                LET staged == DictGet(updated_notes, tf)
                IN /\ Len(staged) = Len(remote[tf]) + 1
                   /\ SubSeq(staged, 1, Len(remote[tf])) = remote[tf]
                   /\ staged[Len(staged)].k = "line"
                   /\ staged[Len(staged)].v[Len(staged[Len(staged)].v)] = formatted_datetime

\* C13: a tree and a commit are created in a repository, and its branch ref
\* moved, only when at least one file was staged for that repository; a run
\* that stages nothing creates no commit in either repository.
C13_NoPublishWithoutStagedFiles ==
    \A repo \in Repos :
        (\/ CallsOf("create_git_commit", repo) # {}
         \/ CallsOf("ref.edit", repo) # {}
         \/ ref[repo] # PreRunSha[repo])
            => PayloadOf(repo) # <<>>

=============================================================================
